---- MODULE Spec2Model ----
(***************************************************************************)
(* MultiLogger: the Logger engine of lib/MultiLogger/Log.cpp.              *)
(*                                                                         *)
(* Threads of the model: the callers of the public interface, one          *)
(* detached ingestion thread per accepted log() call, the drain worker     *)
(* started by the constructor, and the thread that runs the destructor.    *)
(* Every critical section on _writeMutex is one step; _destMutex is held   *)
(* by the worker across the steps of one batch and is therefore explicit.  *)
(***************************************************************************)
EXTENDS Integers, Sequences, FiniteSets, TLC

\* enum class Priority
Debug == 0
Info == 1
Warning == 2
Error == 3
Critical == 4

\* ---- bounds of the exploration ----
MaxLogs == 2          \* log() calls over the life of the logger
MaxDests == 2         \* addDest calls
MaxOps == 2           \* calls of the other mutators
NumCallers == 2       \* threads that call the public interface

Callers == 1..NumCallers
PriorityInputs == {Info, Error}
Names == {"a", "b"}
Categories == {"global", "tester"}

VARIABLES
    _category,          \* std::string _category
    _globalThreshold,   \* Priority _globalThreshold
    _errorThreshold,    \* Priority _errorThreshold
    _verifCB,           \* verif_cb_t _verifCB: TRUE when it holds a target
    _requestedErrors,   \* std::atomic_size_t _requestedErrors
    _dests,             \* dests_t _dests: sequence of LogTarget
    _queue,             \* priority_queue_t _queue: the records it holds
    _log,               \* std::atomic_bool _log
    _destMutex,         \* owner of _destMutex: "free" or "worker"
    notified,           \* a notify_one on _writeCond reached the waiting worker
    wpc,                \* position of the drain worker (_logger)
    localQueue,         \* the worker's localQueue
    units,              \* the detached ingestion threads
    cpc,                \* position of each caller inside log()
    pend,               \* arguments of the log() call each caller is in
    clock,              \* std::chrono::system_clock
    dpc,                \* position of the destructor
    fidx,               \* index in _dests of the destructor's range-for
    written,            \* per LogTarget: the records passed to write()
    flushed,            \* indices of the LogTargets flush() was called on
    cbArgs,             \* arguments of the calls of the verification callback
    calls,              \* every log() call so far: its priority, the gate's
                        \* outcome, and the thresholds and callback it met
    since,              \* per LogTarget: Len(calls) when it was added or last changed
    lastPermit,         \* per name: what the last permitDest that found it set
    nOps                \* mutator calls so far

vars == <<_category, _globalThreshold, _errorThreshold, _verifCB,
          _requestedErrors, _dests, _queue, _log, _destMutex, notified,
          wpc, localQueue, units, cpc, pend, clock, dpc, fidx,
          written, flushed, cbArgs, calls, since, lastPermit, nOps>>

\* the engine's fields other than the registry
engineVars == <<_category, _globalThreshold, _errorThreshold, _verifCB,
                _requestedErrors, _log>>
workerVars == <<wpc, localQueue, notified>>
dtorVars == <<dpc, fidx, flushed, cbArgs>>
callerVars == <<cpc, pend, clock>>

NoPend == [id |-> 0, pri |-> Debug, gate |-> Debug, off |-> {}]

\* ---- pure helpers ----

\* variant of the lookup: the last match instead of the first
RECURSIVE find_last(_, _, _)
find_last(ds, name, i) ==
    IF i > Len(ds) THEN 0
    ELSE LET later == find_last(ds, name, i + 1)
         IN  IF later # 0 THEN later
             ELSE IF ds[i].name = name THEN i ELSE 0

\* std::find_if over _dests by name: index of the first match, 0 for end()
RECURSIVE find_if(_, _, _)
find_if(ds, name, i) ==
    IF i > Len(ds) THEN 0
    ELSE IF ds[i].name = name THEN i
    ELSE find_if(ds, name, i + 1)

\* variant of the comparison: the timestamp alone
ElementLessByTime(a, b) == a.ts < b.ts

\* operator> of queue_element_t = pair<time_point, pair<Priority, string>>:
\* the timestamp first, then the priority, then the formatted line, whose
\* variable part begins with the thread id and the category
LineLess(a, b) ==
    \/ a.caller < b.caller
    \/ a.caller = b.caller /\ a.cat = "global" /\ b.cat = "tester"
ElementLess(a, b) ==
    \/ a.ts < b.ts
    \/ a.ts = b.ts /\ a.pri < b.pri
    \/ a.ts = b.ts /\ a.pri = b.pri /\ LineLess(a, b)

\* priority_queue::top() with std::greater: an element no other is less than
IsTop(q, r) == r \in q /\ \A o \in q : ~ElementLess(o, r)

\* variants of the dispatch condition: the comparison off by one, the
\* threshold not looked at, the enabled flag not looked at
DispatchesAbove(t, m) == t.enabled /\ t.threshold < m.pri /\ t.hasDest
DispatchesAnyPriority(t, m) == t.enabled /\ t.hasDest
DispatchesDisabled(t, m) == ~(m.pri < t.threshold) /\ t.hasDest

\* the condition of the dispatch loop for one LogTarget
Dispatches(t, m) == t.enabled /\ ~(m.pri < t.threshold) /\ t.hasDest

\* bool logging(const std::string&)
logging_dest(name) ==
    LET cit == find_if(_dests, name, 1)
    IN  IF cit = 0 THEN FALSE ELSE _dests[cit].enabled

\* bool logging(const Priority)
\* const std::string& category() const
category_get == _category

logging_pri(pri) == ~(pri < _globalThreshold)

\* ---- construction ----

\* Logger::Impl::Impl: the member initialisers and the start of _logger
Init ==
    /\ _globalThreshold \in PriorityInputs
    /\ _category = "global"
    /\ _errorThreshold = Error
    /\ _verifCB = FALSE
    /\ _requestedErrors = 0
    /\ _dests = <<>>
    /\ _queue = {}
    /\ _log = TRUE
    /\ _destMutex = "free"
    /\ notified = FALSE
    /\ wpc = "head"
    /\ localQueue = {}
    /\ units = {}
    /\ cpc = [c \in Callers |-> "idle"]
    /\ pend = [c \in Callers |-> NoPend]
    /\ clock = 0
    /\ dpc = "alive"
    /\ fidx = 0
    /\ written = <<>>
    /\ flushed = <<>>
    /\ cbArgs = <<>>
    /\ calls = <<>>
    /\ since = <<>>
    /\ lastPermit = [n \in Names |-> "none"]
    /\ nOps = 0

\* ---- log() on the caller's thread ----

\* variant of the gate: the comparison reversed
GateReversed(pri) == ~(_globalThreshold < pri)

\* variant of the counter: only priorities above the error threshold count
CountsStrictlyAbove(pri) == _verifCB /\ _errorThreshold < pri

\* variant of the counter: counted whether or not a callback is set
CountsWithoutCB(pri) == ~(pri < _errorThreshold)

\* the gate of Logger::Impl::log, one critical section on _writeMutex
Gate(pri) == ~(pri < _globalThreshold)
CountsAsError(pri) == _verifCB /\ ~(pri < _errorThreshold)

log_gate(c, pri) ==
    /\ dpc = "alive"
    /\ cpc[c] = "idle"
    /\ Len(calls) < MaxLogs
    /\ calls' = Append(calls, [pri |-> pri, passed |-> Gate(pri),
                                thr |-> _globalThreshold,
                                errThr |-> _errorThreshold, cb |-> _verifCB])
    /\ IF ~Gate(pri)
       THEN UNCHANGED <<_requestedErrors, cpc, pend>>
       ELSE /\ _requestedErrors' = IF CountsAsError(pri)
                                   THEN _requestedErrors + 1
                                   ELSE _requestedErrors
            /\ cpc' = [cpc EXCEPT ![c] = "gated"]
            /\ pend' = [pend EXCEPT ![c] =
                           [id |-> Len(calls) + 1, pri |-> pri,
                            gate |-> _globalThreshold,
                            off |-> {i \in 1..Len(_dests) : ~_dests[i].enabled}]]
    /\ UNCHANGED <<_category, _globalThreshold, _errorThreshold, _verifCB,
                   _dests, _queue, _log, _destMutex, workerVars, units, clock,
                   dtorVars, written, since, lastPermit, nOps>>

\* system_clock::now() and the start of the detached thread
log_spawn(c) ==
    /\ cpc[c] = "gated"
    /\ \E now \in {clock, clock + 1} :
          /\ clock' = now
          /\ units' = units \cup
                {[id |-> pend[c].id, caller |-> c, ts |-> now,
                  pri |-> pend[c].pri, cat |-> "", gate |-> pend[c].gate,
                  off |-> pend[c].off, seq |-> 0, pc |-> "format"]}
    /\ cpc' = [cpc EXCEPT ![c] = "idle"]
    /\ pend' = [pend EXCEPT ![c] = NoPend]
    /\ UNCHANGED <<engineVars, _dests, _queue, _destMutex, workerVars,
                   dtorVars, written, calls, since, lastPermit, nOps>>

\* ---- the detached ingestion thread ----

Element(u) == [id |-> u.id, caller |-> u.caller, ts |-> u.ts, pri |-> u.pri,
               cat |-> u.cat, gate |-> u.gate, off |-> u.off, seq |-> u.seq]

\* how many records have been pushed to _queue so far
pushes ==
    Cardinality({k \in 1..Len(calls) :
                    /\ calls[k].passed
                    /\ \A c \in Callers : pend[c].id # k
                    /\ \A u \in units : u.id # k})

\* variant of the formatting: the category the Logger was constructed with
unit_format_stale(u) ==
    /\ dpc # "done"
    /\ u \in units /\ u.pc = "format"
    /\ units' = (units \ {u}) \cup {[u EXCEPT !.cat = "global", !.pc = "push"]}
    /\ UNCHANGED <<engineVars, _dests, _queue, _destMutex, workerVars,
                   callerVars, dtorVars, written, calls, since, lastPermit, nOps>>

\* formattedMsg << ... << _category << ...
unit_format(u) ==
    /\ dpc # "done"
    /\ u \in units /\ u.pc = "format"
    /\ units' = (units \ {u}) \cup {[u EXCEPT !.cat = _category, !.pc = "push"]}
    /\ UNCHANGED <<engineVars, _dests, _queue, _destMutex, workerVars,
                   callerVars, dtorVars, written, calls, since, lastPermit, nOps>>

\* gmtime_r returns null and the lambda throws std::runtime_error; nothing in
\* the detached thread catches it, so std::terminate ends the process and
\* with it the callers, the worker, the other ingestion threads and the owner
unit_throw(u) ==
    /\ dpc # "done"
    /\ u \in units /\ u.pc = "format"
    /\ units' = {}
    /\ wpc' = "terminated"
    /\ dpc' = "terminated"
    /\ cpc' = [c \in Callers |-> "terminated"]
    /\ UNCHANGED <<engineVars, _dests, _queue, _destMutex, localQueue,
                   notified, pend, clock, fidx, flushed, cbArgs, written,
                   calls, since, lastPermit, nOps>>

\* the lambda goes on after ~Impl has returned: this points to a destroyed
\* Impl, and reading _category or locking _writeMutex there is undefined. The
\* thread either ends with nothing to show for it, or the process dies.
unit_after_free(u) ==
    /\ dpc = "done"
    /\ u \in units
    /\ \/ /\ units' = units \ {u}
          /\ UNCHANGED <<dpc, cpc>>
       \/ /\ units' = {}
          /\ dpc' = "terminated"
          /\ cpc' = [c \in Callers |-> "terminated"]
    /\ UNCHANGED <<engineVars, _dests, _queue, _destMutex, workerVars,
                   pend, clock, fidx, flushed, cbArgs, written, calls, since,
                   lastPermit, nOps>>

\* variant of the push: no _writeCond.notify_one() after it
unit_push_silent(u) ==
    /\ dpc # "done"
    /\ u \in units /\ u.pc = "push"
    /\ _queue' = _queue \cup {[Element(u) EXCEPT !.seq = pushes + 1]}
    /\ units' = units \ {u}
    /\ UNCHANGED <<engineVars, _dests, _destMutex, workerVars,
                   callerVars, dtorVars, written, calls, since, lastPermit, nOps>>

\* _queue.push under _writeMutex, then _writeCond.notify_one(), which only a
\* worker inside wait_for receives; the thread ends
unit_push(u) ==
    /\ dpc # "done"
    /\ u \in units /\ u.pc = "push"
    /\ _queue' = _queue \cup {[Element(u) EXCEPT !.seq = pushes + 1]}
    /\ notified' = (notified \/ wpc = "waiting")
    /\ units' = units \ {u}
    /\ UNCHANGED <<engineVars, _dests, _destMutex, wpc, localQueue,
                   callerVars, dtorVars, written, calls, since, lastPermit, nOps>>

\* ---- the drain worker ----

\* variant of the exit test: the shutdown flag alone ends the loop
ExitOnFlagOnly == ~_log

\* if (_queue.empty() && !_log) break;
ExitTest == _queue = {} /\ ~_log

\* loop head: lock, exit test, and wait_for when its predicate already holds
worker_head ==
    /\ wpc = "head"
    /\ IF ExitTest
       THEN wpc' = "exited" /\ UNCHANGED <<_queue, localQueue, notified>>
       ELSE IF _queue # {}
       THEN /\ localQueue' = _queue
            /\ _queue' = {}
            /\ wpc' = "lockDest"
            /\ UNCHANGED notified
       ELSE /\ wpc' = "waiting"
            /\ notified' = FALSE
            /\ UNCHANGED <<_queue, localQueue>>
    /\ UNCHANGED <<engineVars, _dests, _destMutex, units,
                   callerVars, dtorVars, written, calls, since, lastPermit, nOps>>

\* wait_for woken by notify_one: it returns only if the predicate holds
worker_wake ==
    /\ wpc = "waiting" /\ notified
    /\ notified' = FALSE
    /\ IF _queue # {}
       THEN localQueue' = _queue /\ _queue' = {} /\ wpc' = "lockDest"
       ELSE UNCHANGED <<_queue, localQueue, wpc>>
    /\ UNCHANGED <<engineVars, _dests, _destMutex, units,
                   callerVars, dtorVars, written, calls, since, lastPermit, nOps>>

\* variant of the detaching: the batch is a copy and _queue keeps its records
worker_timeout_copy ==
    /\ wpc = "waiting"
    /\ notified' = FALSE
    /\ localQueue' = _queue
    /\ wpc' = "lockDest"
    /\ UNCHANGED <<engineVars, _dests, _queue, _destMutex, units,
                   callerVars, dtorVars, written, calls, since, lastPermit, nOps>>

\* variant of the wait: a plain wait, which no timeout ends
worker_no_timeout ==
    /\ wpc = "waiting"
    /\ FALSE
    /\ UNCHANGED vars

\* wait_for after _maxWait: it returns whatever the predicate says
worker_timeout ==
    /\ wpc = "waiting"
    /\ notified' = FALSE
    /\ localQueue' = _queue
    /\ _queue' = {}
    /\ wpc' = "lockDest"
    /\ UNCHANGED <<engineVars, _dests, _destMutex, units,
                   callerVars, dtorVars, written, calls, since, lastPermit, nOps>>

\* std::lock_guard<std::mutex> lgd{_destMutex}
worker_lockDest ==
    /\ wpc = "lockDest"
    /\ _destMutex = "free"
    /\ _destMutex' = "worker"
    /\ wpc' = "pop"
    /\ UNCHANGED <<engineVars, _dests, _queue, notified, localQueue,
                   units, callerVars, dtorVars, written, calls, since,
                   lastPermit, nOps>>

\* variant of the fan-out: the loop ends at the first write
RECURSIVE WriteFirst(_, _, _, _)
WriteFirst(w, ds, m, i) ==
    IF i > Len(ds) THEN w
    ELSE IF Dispatches(ds[i], m) THEN [w EXCEPT ![i] = Append(@, m)]
    ELSE WriteFirst(w, ds, m, i + 1)

\* writes of one msg by for (auto& target : _dests), from target i onwards
RECURSIVE WriteAll(_, _, _, _)
WriteAll(w, ds, m, i) ==
    IF i > Len(ds) THEN w
    ELSE WriteAll(IF Dispatches(ds[i], m)
                  THEN [w EXCEPT ![i] = Append(@, m)]
                  ELSE w,
                  ds, m, i + 1)

\* while (!localQueue.empty()): top(), pop() and the writes of that msg;
\* the end of the loop releases _destMutex
worker_pop ==
    /\ wpc = "pop"
    /\ IF localQueue = {}
       THEN /\ _destMutex' = "free"
            /\ wpc' = "head"
            /\ UNCHANGED <<localQueue, written>>
       ELSE \E msg \in localQueue :
               /\ IsTop(localQueue, msg)
               /\ localQueue' = localQueue \ {msg}
               /\ written' = WriteAll(written, _dests, msg, 1)
               /\ UNCHANGED <<_destMutex, wpc>>
    /\ UNCHANGED <<engineVars, _dests, _queue, notified, units, callerVars,
                   dtorVars, calls, since, lastPermit, nOps>>

\* ---- the mutators ----

CanCall == dpc = "alive" /\ nOps < MaxOps

\* void category(const std::string&)
category(category_) ==
    /\ CanCall
    /\ _category' = category_
    /\ nOps' = nOps + 1
    /\ UNCHANGED <<_globalThreshold, _errorThreshold, _verifCB,
                   _requestedErrors, _log, _dests, _queue, _destMutex,
                   workerVars, units, callerVars, dtorVars, written, calls,
                   since, lastPermit>>

\* variant of the insertion: the new LogTarget goes to the front
emplace_front(name_, hasDest_, threshold_) ==
    /\ _dests' = <<[name |-> name_, hasDest |-> hasDest_,
                    threshold |-> threshold_, enabled |-> TRUE]>> \o _dests
    /\ written' = <<<<>>>> \o written
    /\ since' = <<Len(calls)>> \o since

\* _dests.emplace_back(name_, dest_, threshold_, true)
emplace_back(name_, hasDest_, threshold_) ==
    /\ _dests' = Append(_dests, [name |-> name_, hasDest |-> hasDest_,
                                 threshold |-> threshold_, enabled |-> TRUE])
    /\ written' = Append(written, <<>>)
    /\ since' = Append(since, Len(calls))

\* void addDest(const std::string&, LogDest::ptr_t&&)
addDest(name_, hasDest_) ==
    /\ dpc = "alive"
    /\ Len(_dests) < MaxDests
    /\ _destMutex = "free"
    /\ emplace_back(name_, hasDest_, _globalThreshold)
    /\ UNCHANGED <<engineVars, _queue, _destMutex, workerVars, units,
                   callerVars, dtorVars, calls, lastPermit, nOps>>

\* void addDest(const std::string&, const Priority, LogDest::ptr_t&&)
addDest_threshold(name_, thresHold_, hasDest_) ==
    /\ dpc = "alive"
    /\ Len(_dests) < MaxDests
    /\ _destMutex = "free"
    /\ emplace_back(name_, hasDest_, thresHold_)
    /\ UNCHANGED <<engineVars, _queue, _destMutex, workerVars, units,
                   callerVars, dtorVars, calls, lastPermit, nOps>>

\* variant of permitDest: the flag is assigned without _destMutex
permitDest_unlocked(name_, enable_) ==
    /\ CanCall
    /\ LET it == find_if(_dests, name_, 1)
       IN  IF it # 0
           THEN /\ _dests' = [_dests EXCEPT ![it].enabled = enable_]
                /\ since' = IF _dests[it].enabled = enable_ THEN since
                            ELSE [since EXCEPT ![it] = Len(calls)]
                /\ lastPermit' = [lastPermit EXCEPT ![name_] =
                                    IF enable_ THEN "on" ELSE "off"]
           ELSE UNCHANGED <<_dests, since, lastPermit>>
    /\ nOps' = nOps + 1
    /\ UNCHANGED <<engineVars, _queue, _destMutex, workerVars, units,
                   callerVars, dtorVars, written, calls>>

\* variant of permitDest: every LogTarget of that name is switched
permitDest_all(name_, enable_) ==
    /\ CanCall
    /\ _destMutex = "free"
    /\ _dests' = [i \in 1..Len(_dests) |->
                    IF _dests[i].name = name_
                    THEN [_dests[i] EXCEPT !.enabled = enable_]
                    ELSE _dests[i]]
    /\ nOps' = nOps + 1
    /\ UNCHANGED <<engineVars, _queue, _destMutex, workerVars, units,
                   callerVars, dtorVars, written, calls, since, lastPermit>>

\* void permitDest(const std::string&, const bool)
permitDest(name_, enable_) ==
    /\ CanCall
    /\ _destMutex = "free"
    /\ LET it == find_if(_dests, name_, 1)
       IN  IF it # 0
           THEN /\ _dests' = [_dests EXCEPT ![it].enabled = enable_]
                /\ since' = IF _dests[it].enabled = enable_ THEN since
                            ELSE [since EXCEPT ![it] = Len(calls)]
                /\ lastPermit' = [lastPermit EXCEPT ![name_] =
                                    IF enable_ THEN "on" ELSE "off"]
           ELSE UNCHANGED <<_dests, since, lastPermit>>
    /\ nOps' = nOps + 1
    /\ UNCHANGED <<engineVars, _queue, _destMutex, workerVars, units,
                   callerVars, dtorVars, written, calls>>

\* variant of threshold: the LogTargets follow the global threshold
threshold_all(globalThreshold_) ==
    /\ CanCall
    /\ _globalThreshold' = globalThreshold_
    /\ _dests' = [i \in 1..Len(_dests) |->
                    [_dests[i] EXCEPT !.threshold = globalThreshold_]]
    /\ nOps' = nOps + 1
    /\ UNCHANGED <<_category, _errorThreshold, _verifCB, _requestedErrors,
                   _log, _queue, _destMutex, workerVars, units,
                   callerVars, dtorVars, written, calls, since, lastPermit>>

\* void threshold(const Priority)
threshold(globalThreshold_) ==
    /\ CanCall
    /\ _globalThreshold' = globalThreshold_
    /\ nOps' = nOps + 1
    /\ UNCHANGED <<_category, _errorThreshold, _verifCB, _requestedErrors,
                   _log, _dests, _queue, _destMutex, workerVars, units,
                   callerVars, dtorVars, written, calls, since, lastPermit>>

\* void threshold(const std::string&, const Priority)
threshold_dest(destName_, threshold_) ==
    /\ CanCall
    /\ _destMutex = "free"
    /\ LET it == find_if(_dests, destName_, 1)
       IN  IF it # 0
           THEN /\ _dests' = [_dests EXCEPT ![it].threshold = threshold_]
                /\ since' = IF _dests[it].threshold = threshold_ THEN since
                            ELSE [since EXCEPT ![it] = Len(calls)]
           ELSE UNCHANGED <<_dests, since>>
    /\ nOps' = nOps + 1
    /\ UNCHANGED <<engineVars, _queue, _destMutex, workerVars, units,
                   callerVars, dtorVars, written, calls, lastPermit>>

\* void verifyCB(const verif_cb_t&)
verifyCB(cb_) ==
    /\ CanCall
    /\ _verifCB' = cb_
    /\ nOps' = nOps + 1
    /\ UNCHANGED <<_category, _globalThreshold, _errorThreshold,
                   _requestedErrors, _log, _dests, _queue, _destMutex,
                   workerVars, units, callerVars, dtorVars, written, calls,
                   since, lastPermit>>

\* void errorThreshold(const Priority)
errorThreshold(errorThreshold_) ==
    /\ CanCall
    /\ _errorThreshold' = errorThreshold_
    /\ nOps' = nOps + 1
    /\ UNCHANGED <<_category, _globalThreshold, _verifCB, _requestedErrors,
                   _log, _dests, _queue, _destMutex, workerVars, units,
                   callerVars, dtorVars, written, calls, since, lastPermit>>

\* ---- Logger::Impl::~Impl ----

\* variant of the destructor: _writeCond.notify_one() after _log = false
dtor_start_notify ==
    /\ dpc = "alive"
    /\ \A c \in Callers : cpc[c] = "idle"
    /\ _log' = FALSE
    /\ dpc' = "join"
    /\ notified' = (notified \/ wpc = "waiting")
    /\ UNCHANGED <<_category, _globalThreshold, _errorThreshold, _verifCB,
                   _requestedErrors, _dests, _queue, _destMutex, wpc,
                   localQueue, units, callerVars, fidx, flushed, cbArgs,
                   written, calls, since, lastPermit, nOps>>

\* _log = false; the callers have left the public interface
dtor_start ==
    /\ dpc = "alive"
    /\ \A c \in Callers : cpc[c] = "idle"
    /\ _log' = FALSE
    /\ dpc' = "join"
    /\ UNCHANGED <<_category, _globalThreshold, _errorThreshold, _verifCB,
                   _requestedErrors, _dests, _queue, _destMutex, workerVars,
                   units, callerVars, fidx, flushed, cbArgs, written, calls,
                   since, lastPermit, nOps>>

\* variant of the destructor: it does not wait for the worker
dtor_no_join ==
    /\ dpc = "join"
    /\ IF _verifCB
       THEN dpc' = "flush" /\ fidx' = 1
       ELSE dpc' = "done" /\ fidx' = 0
    /\ UNCHANGED <<engineVars, _dests, _queue, _destMutex, workerVars, units,
                   callerVars, flushed, cbArgs, written, calls, since,
                   lastPermit, nOps>>

\* _logger.join(); if (_verifCB)
dtor_join ==
    /\ dpc = "join"
    /\ wpc = "exited"
    /\ IF _verifCB
       THEN dpc' = "flush" /\ fidx' = 1
       ELSE dpc' = "done" /\ fidx' = 0
    /\ UNCHANGED <<engineVars, _dests, _queue, _destMutex, workerVars, units,
                   callerVars, flushed, cbArgs, written, calls, since,
                   lastPermit, nOps>>

\* variant of the destructor: the flush loop ends one LogTarget early
dtor_flush_short ==
    /\ dpc = "flush"
    /\ IF fidx < Len(_dests)
       THEN /\ flushed' = IF _dests[fidx].hasDest THEN Append(flushed, fidx)
                          ELSE flushed
            /\ fidx' = fidx + 1
            /\ UNCHANGED <<dpc, cbArgs>>
       ELSE /\ cbArgs' = Append(cbArgs, _requestedErrors)
            /\ dpc' = "done"
            /\ fidx' = 0
            /\ UNCHANGED flushed
    /\ UNCHANGED <<engineVars, _dests, _queue, _destMutex, workerVars, units,
                   callerVars, written, calls, since, lastPermit, nOps>>

\* one round of for (auto& target : _dests), then _verifCB(_requestedErrors)
dtor_flush ==
    /\ dpc = "flush"
    /\ IF fidx <= Len(_dests)
       THEN /\ flushed' = IF _dests[fidx].hasDest THEN Append(flushed, fidx)
                          ELSE flushed
            /\ fidx' = fidx + 1
            /\ UNCHANGED <<dpc, cbArgs>>
       ELSE /\ cbArgs' = Append(cbArgs, _requestedErrors)
            /\ dpc' = "done"
            /\ fidx' = 0
            /\ UNCHANGED flushed
    /\ UNCHANGED <<engineVars, _dests, _queue, _destMutex, workerVars, units,
                   callerVars, written, calls, since, lastPermit, nOps>>

\* ---- which thread touches which member under which mutex ----

\* the members of Logger::Impl that are neither atomic nor constant, and the
\* batch local to the worker's loop body
Fields == {"_category", "_globalThreshold", "_errorThreshold", "_verifCB",
           "_dests", "_queue", "localQueue"}

\* the pieces of code that run as one step each
Sites == {"log_gate", "log_spawn", "unit_format", "unit_push",
          "worker_head", "worker_wake", "worker_timeout", "worker_lockDest",
          "worker_pop", "category", "addDest", "addDest_threshold",
          "permitDest", "threshold", "threshold_dest", "verifyCB",
          "errorThreshold", "dtor_start", "dtor_join", "dtor_flush"}

\* the step is a step of that piece of code
Step(s) ==
    CASE s = "log_gate" ->
            \E c \in Callers, pri \in PriorityInputs : log_gate(c, pri)
      [] s = "log_spawn" -> \E c \in Callers : log_spawn(c)
      [] s = "unit_format" -> \E u \in units : unit_format(u)
      [] s = "unit_push" -> \E u \in units : unit_push(u)
      [] s = "worker_head" -> worker_head
      [] s = "worker_wake" -> worker_wake
      [] s = "worker_timeout" -> worker_timeout
      [] s = "worker_lockDest" -> worker_lockDest
      [] s = "worker_pop" -> worker_pop
      [] s = "category" -> \E c \in Categories : category(c)
      [] s = "addDest" -> \E n \in Names, d \in BOOLEAN : addDest(n, d)
      [] s = "addDest_threshold" ->
            \E n \in Names, p \in PriorityInputs, d \in BOOLEAN :
                addDest_threshold(n, p, d)
      [] s = "permitDest" -> \E n \in Names, e \in BOOLEAN : permitDest(n, e)
      [] s = "threshold" -> \E p \in PriorityInputs : threshold(p)
      [] s = "threshold_dest" ->
            \E n \in Names, p \in PriorityInputs : threshold_dest(n, p)
      [] s = "verifyCB" -> \E cb \in BOOLEAN : verifyCB(cb)
      [] s = "errorThreshold" -> \E p \in PriorityInputs : errorThreshold(p)
      [] s = "dtor_start" -> dtor_start
      [] s = "dtor_join" -> dtor_join
      [] s = "dtor_flush" -> dtor_flush

\* the thread that runs it: any thread of the program for the public member
\* functions, a thread of its own for each ingestion lambda, _logger for the
\* worker loop, the owner of the Logger for the destructor
Thread(s) ==
    IF s \in {"unit_format", "unit_push"} THEN "unit"
    ELSE IF s \in {"worker_head", "worker_wake", "worker_timeout",
                   "worker_lockDest", "worker_pop"} THEN "worker"
    ELSE IF s \in {"dtor_start", "dtor_join", "dtor_flush"} THEN "owner"
    ELSE "client"

\* variant of the locking: the ingestion thread pushes without _writeMutex
HoldsPushUnlocked(s) ==
    IF s \in {"log_gate", "worker_head", "worker_wake",
              "worker_timeout", "category", "threshold", "errorThreshold"}
    THEN {"_writeMutex"}
    ELSE IF s \in {"worker_pop", "addDest", "addDest_threshold",
                   "permitDest", "threshold_dest"}
    THEN {"_destMutex"}
    ELSE {}

\* variant of the locking: the worker dispatches without ulw.unlock() first
HoldsDispatchNested(s) ==
    IF s \in {"log_gate", "unit_push", "worker_head", "worker_wake",
              "worker_timeout", "category", "threshold", "errorThreshold"}
    THEN {"_writeMutex"}
    ELSE IF s \in {"worker_lockDest", "worker_pop"}
    THEN {"_writeMutex", "_destMutex"}
    ELSE IF s \in {"addDest", "addDest_threshold",
                   "permitDest", "threshold_dest"}
    THEN {"_destMutex"}
    ELSE {}

\* the mutexes the thread holds while it touches the members below
Holds(s) ==
    IF s \in {"log_gate", "unit_push", "worker_head", "worker_wake",
              "worker_timeout", "category", "threshold", "errorThreshold"}
    THEN {"_writeMutex"}
    ELSE IF s \in {"worker_pop", "addDest", "addDest_threshold",
                   "permitDest", "threshold_dest"}
    THEN {"_destMutex"}
    ELSE {}

\* the members it reads
Reads(s) ==
    CASE s = "log_gate" -> {"_globalThreshold", "_verifCB", "_errorThreshold"}
      [] s = "unit_format" -> {"_category"}
      [] s \in {"worker_head", "worker_wake", "worker_timeout"} -> {"_queue"}
      [] s = "worker_pop" -> {"_dests", "localQueue"}
      [] s = "addDest" -> {"_globalThreshold"}
      [] s \in {"permitDest", "threshold_dest"} -> {"_dests"}
      [] s = "dtor_join" -> {"_verifCB"}
      [] s = "dtor_flush" -> {"_dests", "_verifCB"}
      [] OTHER -> {}

\* the members it writes
Writes(s) ==
    CASE s = "unit_push" -> {"_queue"}
      [] s \in {"worker_head", "worker_wake", "worker_timeout"} ->
            {"_queue", "localQueue"}
      [] s = "worker_pop" -> {"localQueue"}
      [] s = "category" -> {"_category"}
      [] s \in {"addDest", "addDest_threshold", "permitDest",
                "threshold_dest"} -> {"_dests"}
      [] s = "threshold" -> {"_globalThreshold"}
      [] s = "errorThreshold" -> {"_errorThreshold"}
      [] s = "verifyCB" -> {"_verifCB"}
      [] OTHER -> {}

Touches(s) == Reads(s) \cup Writes(s)

\* both pieces of code are about to run, on two threads
MayOverlap(s, t) ==
    /\ ENABLED Step(s)
    /\ ENABLED Step(t)
    /\ \/ Thread(s) # Thread(t)
       \/ Thread(s) = "client"
       \/ Thread(s) = "unit" /\ Cardinality(units) >= 2

\* ---- the specifications ----

\* log(), the ingestion threads, the drain worker and a destructor that finds
\* no verification callback
Logging(cs, ps) ==
    \/ \E c \in cs, pri \in ps : log_gate(c, pri)
    \/ \E c \in cs : log_spawn(c)
    \/ \E u \in units : unit_format(u)
    \/ \E u \in units : unit_push(u)
    \/ worker_head
    \/ worker_wake
    \/ worker_timeout
    \/ worker_lockDest
    \/ worker_pop
    \/ dtor_start
    \/ dtor_join

\* Logger(): the default arguments of the constructor
InitDefault == Init /\ _globalThreshold = Info

\* concurrent callers and destinations added with the global threshold
Next ==
    \/ Logging(Callers, PriorityInputs)
    \/ \E n \in {"a"} : addDest(n, TRUE)

Spec == Init /\ [][Next]_vars

\* one caller, and the operations that set a threshold
NextThreshold ==
    \/ Logging({1}, {Info})
    \/ \E d \in BOOLEAN : addDest("a", d)
    \/ \E p \in PriorityInputs : threshold(p)
    \/ \E p \in PriorityInputs : threshold_dest("a", p)

SpecThreshold == InitDefault /\ [][NextThreshold]_vars

\* one caller, and destinations that are disabled and enabled
NextPermit ==
    \/ Logging({1}, {Info})
    \/ \E n \in Names : addDest(n, TRUE)
    \/ \E n \in Names, e \in BOOLEAN : permitDest(n, e)

SpecPermit == InitDefault /\ [][NextPermit]_vars

\* one caller, and a verification callback
NextVerify ==
    \/ Logging({1}, PriorityInputs)
    \/ \E d \in BOOLEAN : addDest("a", d)
    \/ \E cb \in BOOLEAN : verifyCB(cb)
    \/ dtor_flush

SpecVerify == InitDefault /\ [][NextVerify]_vars

\* one caller, no destination, and what decides the requested-error count
NextCount ==
    \/ Logging({1}, PriorityInputs)
    \/ \E cb \in BOOLEAN : verifyCB(cb)
    \/ \E p \in PriorityInputs : errorThreshold(p)
    \/ \E p \in PriorityInputs : threshold(p)
    \/ dtor_flush

SpecCount == Init /\ [][NextCount]_vars

\* one caller, one destination, and the category set at any time
NextCategory ==
    \/ Logging({1}, {Info})
    \/ addDest("a", TRUE)
    \/ \E c \in Categories : category(c)

SpecCategory == InitDefault /\ [][NextCategory]_vars

\* one caller and one destination, both thresholds set at any time, from
\* either global threshold
NextLower ==
    \/ Logging({1}, PriorityInputs)
    \/ addDest("a", TRUE)
    \/ \E p \in PriorityInputs : threshold(p)
    \/ \E p \in PriorityInputs : threshold_dest("a", p)

SpecLower == Init /\ [][NextLower]_vars

\* one caller and every operation on the registry; the name "b" is never added
NextRegistry ==
    \/ Logging({1}, {Info})
    \/ addDest("a", TRUE)
    \/ \E p \in PriorityInputs : addDest_threshold("a", p, TRUE)
    \/ \E n \in Names, e \in BOOLEAN : permitDest(n, e)
    \/ \E n \in Names, p \in PriorityInputs : threshold_dest(n, p)

SpecRegistry == Init /\ [][NextRegistry]_vars

\* two callers and one destination, with gmtime_r allowed to fail
NextFailure ==
    \/ Logging(Callers, {Info})
    \/ addDest("a", TRUE)
    \/ \E u \in units : unit_throw(u)

SpecFailure == InitDefault /\ [][NextFailure]_vars

\* two callers and one destination, with the ingestion threads followed past
\* the end of the destructor
NextTeardown ==
    \/ Logging(Callers, {Info})
    \/ addDest("a", TRUE)
    \/ \E u \in units : unit_after_free(u)

SpecTeardown == InitDefault /\ [][NextTeardown]_vars

\* the threads the logger owns are scheduled fairly: the drain worker takes
\* its next step, wait_for returns after _maxWait at the latest, and the
\* destructor goes on once join returns
Fairness ==
    /\ WF_vars(worker_head)
    /\ WF_vars(worker_wake)
    /\ WF_vars(worker_timeout)
    /\ WF_vars(worker_lockDest)
    /\ WF_vars(worker_pop)
    /\ WF_vars(dtor_join)
    /\ WF_vars(dtor_flush)

\* one caller and one destination, torn down with or without a callback
NextLive ==
    \/ Logging({1}, {Info})
    \/ \E d \in BOOLEAN : addDest("a", d)
    \/ verifyCB(TRUE)
    \/ dtor_flush

SpecLive == InitDefault /\ [][NextLive]_vars /\ Fairness

\* the drain worker is scheduled fairly, but nothing is assumed of the
\* timeout of wait_for: the worker leaves the wait when it is notified
FairnessSignalled ==
    /\ WF_vars(worker_head)
    /\ WF_vars(worker_wake)
    /\ WF_vars(worker_lockDest)
    /\ WF_vars(worker_pop)

SpecSignalled == InitDefault /\ [][NextLive]_vars /\ FairnessSignalled

\* ---- notions the properties share ----

Targets == 1..Len(_dests)

\* the records an index of written holds
Records(i) == {written[i][k] : k \in 1..Len(written[i])}

\* the drain worker is not inside the dispatch of a batch
BetweenBatches == wpc # "pop"

\* the LogTarget was added, and last changed, before the first log() call
Untouched(i) == since[i] = 0

\* the first LogTarget of that name, 0 when there is none
FirstNamed(n) ==
    IF \E i \in Targets : _dests[i].name = n
    THEN CHOOSE i \in Targets :
            /\ _dests[i].name = n
            /\ \A j \in Targets : _dests[j].name = n => i <= j
    ELSE 0

\* the LogTargets that hold a destination, in registry order
RECURSIVE FlushOrder(_)
FlushOrder(i) ==
    IF i > Len(_dests) THEN <<>>
    ELSE (IF _dests[i].hasDest THEN <<i>> ELSE <<>>) \o FlushOrder(i + 1)

IsPrefix(p, q) == Len(p) <= Len(q) /\ \A k \in 1..Len(p) : p[k] = q[k]

\* the step pops msg from the worker's batch and dispatches it
Pops(m) == wpc = "pop" /\ m \in localQueue /\ localQueue' = localQueue \ {m}

\* ---- C1 ----
\* C1: two destinations added before the first log() call, enabled and with
\* the same threshold ever since, have received the same sequence of records
\* whenever the drain worker is between batches, and so at the end of teardown.
SameSequence ==
    BetweenBatches =>
        \A i, j \in Targets :
            (/\ Untouched(i) /\ Untouched(j)
             /\ _dests[i].hasDest /\ _dests[j].hasDest
             /\ _dests[i].enabled /\ _dests[j].enabled
             /\ _dests[i].threshold = _dests[j].threshold)
            => written[i] = written[j]

SameSequenceWitness ==
    /\ dpc = "done"
    /\ Len(_dests) = 2
    /\ Untouched(1) /\ Untouched(2)
    /\ Len(written[1]) = 2
    /\ written[1] = written[2]

\* ---- C2 ----
\* C2: the records written to a destination are in non-decreasing order of
\* their capture timestamps, over the whole life of the logger.
ChronologicalOrder ==
    \A i \in Targets :
        \A k, l \in 1..Len(written[i]) :
            k < l => written[i][k].ts <= written[i][l].ts

\* ---- C3 ----
\* C3: when the destructor has returned, every log() call that passed the
\* gate has its record in every destination that was enabled, with a
\* threshold the call satisfies, from before the call on.
DeliveredAtTeardown ==
    dpc = "done" =>
        \A k \in 1..Len(calls) :
            calls[k].passed =>
                \A i \in Targets :
                    (/\ since[i] < k
                     /\ _dests[i].hasDest /\ _dests[i].enabled
                     /\ ~(calls[k].pri < _dests[i].threshold))
                    => \E r \in Records(i) : r.id = k

\* ---- C4 ----
\* C4: a log() call with a priority below the global threshold changes
\* nothing: no ingestion thread, no counter change, no record; and no record
\* anywhere has a priority below the global threshold its call met.
AllRecords ==
    {Element(u) : u \in units} \cup _queue \cup localQueue
        \cup UNION {Records(i) : i \in Targets}

BelowThresholdStep ==
    /\ Len(calls') = Len(calls) + 1
    /\ calls'[Len(calls')].pri < _globalThreshold

BelowThresholdNoOp ==
    /\ [][BelowThresholdStep =>
            UNCHANGED <<engineVars, _dests, _queue, _destMutex, workerVars,
                        units, callerVars, dtorVars, written>>]_vars
    /\ [](\A r \in AllRecords : ~(r.pri < r.gate))

BelowThresholdWitness ==
    /\ \E k \in 1..Len(calls) : calls[k].pri < _globalThreshold /\ ~calls[k].passed
    /\ \E k \in 1..Len(calls) : calls[k].passed
    /\ dpc = "done"
    /\ Len(_dests) > 0
    /\ Len(written[1]) = 1

\* ---- C5 ----
\* C5 as stated: a dispatched record is written to exactly the LogTargets that
\* are enabled and whose threshold is not above its priority.
WrittenToQualifying ==
    [][\A m \in localQueue :
          Pops(m) =>
             \A i \in Targets :
                written'[i] = IF _dests[i].enabled /\ ~(m.pri < _dests[i].threshold)
                              THEN Append(written[i], m)
                              ELSE written[i]]_vars

\* C5 amended: a dispatched record is written to exactly the LogTargets that
\* hold a destination, are enabled and whose threshold is not above its
\* priority.
WrittenToQualifyingDest ==
    [][\A m \in localQueue :
          Pops(m) =>
             \A i \in Targets :
                written'[i] = IF /\ _dests[i].hasDest
                                 /\ _dests[i].enabled
                                 /\ ~(m.pri < _dests[i].threshold)
                              THEN Append(written[i], m)
                              ELSE written[i]]_vars

WrittenToQualifyingWitness ==
    \E i, j \in Targets :
        /\ _dests[i].hasDest /\ _dests[j].hasDest
        /\ \E r \in Records(i) :
              /\ r.pri < _dests[j].threshold
              /\ Untouched(j)
              /\ r \notin Records(j)

\* ---- C6 ----
\* C6 as stated: a record is written only to a LogTarget whose threshold it
\* meets, and only while it meets the global threshold of that moment.
WriteMeetsThresholdsNow ==
    [][\A m \in localQueue :
          Pops(m) =>
             \A i \in Targets :
                written'[i] # written[i] =>
                   /\ ~(m.pri < _dests[i].threshold)
                   /\ ~(m.pri < _globalThreshold)]_vars

\* C6 amended: a record is written only to a LogTarget whose threshold it
\* meets at the time of the write, and its priority is at least the global
\* threshold that was in force when its log() call was made.
WriteMeetsThresholds ==
    [][\A m \in localQueue :
          Pops(m) =>
             \A i \in Targets :
                written'[i] # written[i] =>
                   /\ ~(m.pri < _dests[i].threshold)
                   /\ ~(m.pri < m.gate)]_vars

WriteMeetsThresholdsWitness ==
    \E i \in Targets :
        \E r \in Records(i) :
            /\ r.pri < _globalThreshold
            /\ ~(r.pri < _dests[i].threshold)

LoggedWhileDisabledNeverWritten ==
    \A i \in Targets : \A r \in Records(i) : i \notin r.off

\* ---- C9 ----
\* C9: the verification callback is called at most once, only by a destructor
\* that found it set, after the worker has exited and after flush() on every
\* destination in registry order, with the value of the counter; a destructor
\* that found it set has called it once when it returns.
CallbackAfterFlush ==
    /\ Len(cbArgs) <= 1
    /\ cbArgs # <<>> =>
          /\ dpc = "done"
          /\ wpc = "exited"
          /\ _verifCB
          /\ flushed = FlushOrder(1)
          /\ cbArgs[1] = _requestedErrors
    /\ (dpc = "flush" /\ cbArgs = <<>>) =>
          /\ wpc = "exited"
          /\ IsPrefix(flushed, FlushOrder(1))
    /\ (dpc = "done" /\ _verifCB) => Len(cbArgs) = 1

CallbackAfterFlushWitness ==
    /\ cbArgs # <<>>
    /\ cbArgs[1] > 0
    /\ Len(flushed) = 2

\* ---- C10 ----
\* C10 as stated: a destructor that has returned has called flush() on every
\* destination, in registry order.
FlushedAtTeardown ==
    dpc = "done" => flushed = FlushOrder(1)

\* C10 amended: flush() is called only after the worker has exited; a
\* destructor that has returned has called it on every destination in
\* registry order if it found a verification callback set, and on none
\* otherwise.
FlushedIfCallback ==
    /\ flushed # <<>> => wpc = "exited"
    /\ dpc = "done" =>
          flushed = IF _verifCB THEN FlushOrder(1) ELSE <<>>

FlushedIfCallbackWitness ==
    /\ dpc = "done"
    /\ _verifCB
    /\ Len(_dests) = 2
    /\ flushed = <<1, 2>>

\* ---- C11 ----
\* C11 as stated: the count passed to the verification callback is the number
\* of log() calls whose priority was at least the error threshold and at
\* least the global threshold at the time of the call.
CountOfErrorCalls ==
    cbArgs # <<>> =>
        cbArgs[1] = Cardinality({k \in 1..Len(calls) :
                                    /\ ~(calls[k].pri < calls[k].errThr)
                                    /\ ~(calls[k].pri < calls[k].thr)})

\* C11 amended: the count passed to the verification callback is the number
\* of log() calls made while a verification callback was set whose priority
\* was at least the error threshold and at least the global threshold at the
\* time of the call.
CountOfErrorCallsWithCallback ==
    cbArgs # <<>> =>
        cbArgs[1] = Cardinality({k \in 1..Len(calls) :
                                    /\ calls[k].cb
                                    /\ ~(calls[k].pri < calls[k].errThr)
                                    /\ ~(calls[k].pri < calls[k].thr)})

CountOfErrorCallsWitness ==
    /\ cbArgs = <<1>>
    /\ Len(calls) = 2
    /\ \E k \in 1..2 : calls[k].cb /\ calls[k].pri < calls[k].errThr
    /\ \E k \in 1..2 : calls[k].cb /\ calls[k].pri = Info
                       /\ ~(calls[k].pri < calls[k].errThr)

\* ---- C12 ----
\* the log() call numbered k has had its record inserted into _queue
Inserted(k) ==
    /\ calls[k].passed
    /\ \A c \in Callers : pend[c].id # k
    /\ \A u \in units : u.id # k

\* C12: the step by which the drain worker exits is taken with the shutdown
\* flag set (_log false) and _queue empty, the worker's batch is empty too,
\* and every record inserted before that step is in every destination that
\* was registered before its log() call and takes its priority.
ExitsDrained ==
    [][(wpc # "exited" /\ wpc' = "exited") =>
        /\ ~_log
        /\ _queue = {}
        /\ localQueue = {}
        /\ \A k \in 1..Len(calls) : Inserted(k) =>
            \A i \in Targets :
                (/\ since[i] < k
                 /\ _dests[i].hasDest /\ _dests[i].enabled
                 /\ ~(calls[k].pri < _dests[i].threshold))
                => \E r \in Records(i) : r.id = k]_vars

ExitsDrainedWitness ==
    /\ wpc = "exited"
    /\ Len(_dests) >= 1
    /\ since[1] = 0
    /\ Len(written[1]) = 2
    /\ Inserted(1) /\ Inserted(2)

\* ---- C13 ----
\* C13: once the destructor has set the shutdown flag (_log false), the drain
\* worker eventually exits and the destructor eventually completes, whatever
\* the ingestion threads still running do, under fair scheduling of the worker
\* and the destructor with wait_for allowed to time out.
TeardownCompletes == (~_log) ~> (wpc = "exited" /\ dpc = "done")

TeardownCompletesWitness ==
    /\ dpc = "done"
    /\ wpc = "exited"
    /\ units # {}
    /\ cbArgs # <<>>
    /\ Len(_dests) >= 1
    /\ Len(written[1]) >= 1

\* ---- C14 ----
\* C14 as stated: logging(name) is true if and only if some LogTarget of that
\* name is enabled, whatever the registry holds, names shared by several
\* LogTargets included.
LoggingIffSomeEnabled ==
    \A n \in Names :
        logging_dest(n) <=> \E i \in Targets : _dests[i].name = n /\ _dests[i].enabled

\* C14 amended: logging(name) is true if and only if a LogTarget of that name
\* exists and the first of them in insertion order is enabled.
LoggingIffFirstEnabled ==
    \A n \in Names :
        logging_dest(n) <=> (FirstNamed(n) # 0 /\ _dests[FirstNamed(n)].enabled)

LoggingIffFirstEnabledWitness ==
    /\ Len(_dests) = 2
    /\ _dests[1].name = "a" /\ _dests[2].name = "a"
    /\ ~_dests[1].enabled /\ _dests[2].enabled
    /\ ~logging_dest("a")
    /\ ~logging_dest("b")

\* ---- C15 ----
\* what no operation on one LogTarget may touch
RegistryOpFrame ==
    /\ Len(_dests') = Len(_dests)
    /\ _queue' = _queue
    /\ localQueue' = localQueue
    /\ units' = units
    /\ written' = written
    /\ _globalThreshold' = _globalThreshold
    /\ _errorThreshold' = _errorThreshold
    /\ _requestedErrors' = _requestedErrors
    /\ _category' = _category
    /\ _verifCB' = _verifCB

\* the step leaves every LogTarget but the first one named n as it was, and
\* that one's name and destination too
OnlyFirstNamed(n) ==
    /\ \A i \in Targets : i # FirstNamed(n) => _dests'[i] = _dests[i]
    /\ FirstNamed(n) # 0 =>
        /\ _dests'[FirstNamed(n)].name = n
        /\ _dests'[FirstNamed(n)].hasDest = _dests[FirstNamed(n)].hasDest

\* C15: permitDest(name, e) changes at most the enabled flag of the first
\* LogTarget of that name, which becomes e, and threshold(name, p) at most the
\* threshold of the first LogTarget of that name, which becomes p; with no
\* LogTarget of that name neither changes the registry, and in every case the
\* other LogTargets, _queue, the worker's batch, the global threshold, the
\* error threshold and the requested-error counter stay as they were.
FirstMatchOnly ==
    [][/\ \A n \in Names, e \in BOOLEAN :
            permitDest(n, e) =>
                /\ RegistryOpFrame
                /\ OnlyFirstNamed(n)
                /\ FirstNamed(n) # 0 =>
                    /\ _dests'[FirstNamed(n)].enabled = e
                    /\ _dests'[FirstNamed(n)].threshold
                            = _dests[FirstNamed(n)].threshold
       /\ \A n \in Names, p \in PriorityInputs :
            threshold_dest(n, p) =>
                /\ RegistryOpFrame
                /\ OnlyFirstNamed(n)
                /\ FirstNamed(n) # 0 =>
                    /\ _dests'[FirstNamed(n)].threshold = p
                    /\ _dests'[FirstNamed(n)].enabled
                            = _dests[FirstNamed(n)].enabled]_vars

\* two LogTargets named "a" after both operations: the first one disabled and
\* of another threshold than the second, which is still enabled
FirstMatchOnlyWitness ==
    /\ Len(_dests) = 2
    /\ _dests[1].name = "a" /\ _dests[2].name = "a"
    /\ ~_dests[1].enabled /\ _dests[2].enabled
    /\ _dests[1].threshold # _dests[2].threshold
    /\ lastPermit["a"] = "off"
    /\ nOps = 2

\* ---- C16 ----
\* C16: threshold(p) sets the global threshold to p and leaves every
\* LogTarget, its threshold and its enabled flag included, as it was, together
\* with _queue, the worker's batch and what was written; and the dispatch of a
\* record writes nothing to a LogTarget whose threshold is above the record's
\* priority, however the record passed the gate.
GlobalThresholdOnlyGates ==
    [][/\ \A p \in PriorityInputs :
            threshold(p) =>
                /\ _globalThreshold' = p
                /\ _dests' = _dests
                /\ _queue' = _queue /\ localQueue' = localQueue
                /\ units' = units /\ written' = written
                /\ _errorThreshold' = _errorThreshold
       /\ \A m \in localQueue :
            Pops(m) =>
                \A i \in Targets :
                    m.pri < _dests[i].threshold => written'[i] = written[i]]_vars

\* the global threshold was raised, the second LogTarget added, the global
\* threshold lowered again, and a record that then passed the gate is in the
\* first LogTarget and not in the second
GlobalThresholdOnlyGatesWitness ==
    /\ Len(_dests) = 2
    /\ _globalThreshold = Info
    /\ _dests[2].threshold = Error
    /\ _dests[2].hasDest /\ _dests[2].enabled
    /\ \E r \in Records(1) :
        /\ since[2] < r.id
        /\ r.gate = Info /\ r.pri = Info
        /\ r \notin Records(2)
    /\ wpc = "exited"

\* ---- C17 ----
\* the step appends one enabled LogTarget of name n and threshold t that
\* holds a destination, behind the LogTargets there were, which it leaves as
\* they were
Appended(n, t) ==
    /\ Len(_dests') = Len(_dests) + 1
    /\ \A i \in Targets : _dests'[i] = _dests[i]
    /\ _dests'[Len(_dests')] = [name |-> n, hasDest |-> TRUE,
                                threshold |-> t, enabled |-> TRUE]

\* C17: addDest(name, dest) appends one enabled LogTarget whose threshold is
\* the global threshold at the time of the call, addDest(name, t, dest) one
\* whose threshold is t, both leaving the LogTargets there were and their
\* positions unchanged; and no step of any operation makes _dests shorter or
\* moves a LogTarget's name or destination to another position.
AppendsOnly ==
    [][/\ addDest("a", TRUE) => Appended("a", _globalThreshold)
       /\ \A p \in PriorityInputs :
            addDest_threshold("a", p, TRUE) => Appended("a", p)
       /\ Len(_dests') >= Len(_dests)
       /\ \A i \in Targets :
            /\ _dests'[i].name = _dests[i].name
            /\ _dests'[i].hasDest = _dests[i].hasDest]_vars

\* under the global threshold Error, untouched since: a LogTarget of
\* threshold Error, and behind it one added with the threshold Info
AppendsOnlyWitness ==
    /\ Len(_dests) = 2
    /\ nOps = 0
    /\ _globalThreshold = Error
    /\ _dests[1].threshold = Error /\ _dests[1].enabled
    /\ _dests[2].threshold = Info /\ _dests[2].enabled

\* ---- C18 ----
\* C18: whenever two pieces of code may run at the same time on two threads,
\* and one of them writes a member that the other reads or writes, the two
\* hold a common mutex.
NoDataRace ==
    \A s, t \in Sites :
        MayOverlap(s, t) =>
            \A f \in Writes(s) \cap Touches(t) : Holds(s) \cap Holds(t) # {}

\* ---- C19 ----
\* C19: every step that reads or writes _category, _globalThreshold or
\* _errorThreshold is taken with _writeMutex held.
SettingsUnderWriteMutex ==
    [][\A s \in Sites :
        (/\ Step(s)
         /\ Touches(s) \cap {"_category", "_globalThreshold",
                             "_errorThreshold"} # {})
        => "_writeMutex" \in Holds(s)]_vars

\* ---- C20 ----
\* C20: every step that tests _queue for emptiness, pushes to it or swaps it
\* is taken with _writeMutex held, _queue changes in no other step, and the
\* worker's batch is read and changed by steps of the worker only.
QueueUnderWriteMutex ==
    [][/\ \A s \in Sites :
            (Step(s) /\ "_queue" \in Touches(s)) => "_writeMutex" \in Holds(s)
       /\ _queue' # _queue =>
            \E s \in Sites : Step(s) /\ "_queue" \in Writes(s)
       /\ \A s \in Sites :
            (Step(s) /\ "localQueue" \in Touches(s)) => Thread(s) = "worker"
       /\ localQueue' # localQueue =>
            \E s \in Sites : Step(s) /\ "localQueue" \in Writes(s)]_vars

\* a record was pushed while the worker dispatched the batch before it
QueueUnderWriteMutexWitness ==
    /\ wpc = "pop"
    /\ localQueue # {}
    /\ _queue # {}

\* ---- C21 ----
\* C21: no step is taken with _writeMutex and _destMutex both held; the worker
\* takes _destMutex in a step of its own, holding nothing, and holds it exactly
\* while it pops and writes; and while it holds it, every ingestion thread
\* that is ready to push can push and every idle caller can pass the gate.
LocksNeverNested ==
    [][/\ \A s \in Sites : Step(s) => Cardinality(Holds(s)) <= 1
       /\ (_destMutex = "free" /\ _destMutex' = "worker") =>
            /\ Step("worker_lockDest")
            /\ Holds("worker_lockDest") = {}
       /\ (\E i \in Targets : written'[i] # written[i]) =>
            /\ Step("worker_pop")
            /\ _destMutex = "worker"
            /\ Holds("worker_pop") = {"_destMutex"}
       /\ (_destMutex = "worker") <=> (wpc = "pop")
       /\ _destMutex = "worker" =>
            /\ \A u \in units :
                (u.pc = "push" /\ dpc # "done") => ENABLED unit_push(u)
            /\ \A c \in Callers :
                (cpc[c] = "idle" /\ dpc = "alive" /\ Len(calls) < MaxLogs)
                => ENABLED log_gate(c, Info)]_vars

\* the worker is writing a batch while an ingestion thread pushes
LocksNeverNestedWitness ==
    /\ wpc = "pop"
    /\ _destMutex = "worker"
    /\ localQueue = {}
    /\ _queue # {}
    /\ Len(_dests) >= 1
    /\ Len(written[1]) = 1

\* ---- C22 ----
\* C22: a record is written to a destination only by a step of the drain
\* worker taken with _destMutex held, one record per step, and from the
\* worker's taking _destMutex to its release no step changes _dests, so that
\* every record of a batch meets the same LogTargets.
DispatchSerialized ==
    [][/\ (\E i \in Targets : written'[i] # written[i]) =>
            /\ Step("worker_pop")
            /\ Thread("worker_pop") = "worker"
            /\ "_destMutex" \in Holds("worker_pop")
            /\ _destMutex = "worker"
            /\ \E m \in localQueue : Pops(m)
       /\ wpc = "pop" => _dests' = _dests
       /\ \A s \in {"addDest", "addDest_threshold", "permitDest",
                    "threshold_dest"} :
            Step(s) => (_destMutex = "free" /\ "_destMutex" \in Holds(s))]_vars

\* the worker is in the middle of a batch of two, and a client that calls
\* permitDest now has to wait
DispatchSerializedWitness ==
    /\ wpc = "pop"
    /\ Len(_dests) >= 1
    /\ Len(written[1]) = 1
    /\ localQueue # {}
    /\ CanCall
    /\ ~ENABLED permitDest("a", FALSE)

\* ---- C23 ----
\* C23: the step in which an ingestion thread fails to get the broken-down
\* time ends that thread alone: the other ingestion threads, the callers, the
\* drain worker and the owner of the Logger are where they were and go on.
FailureEndsOneUnit ==
    [][\A u \in units :
        unit_throw(u) =>
            /\ units' = units \ {u}
            /\ wpc' = wpc
            /\ cpc' = cpc
            /\ dpc' = dpc]_vars

\* ---- C24 ----
\* every record there is, formatted or buffered or in a batch or written
FormattedRecords ==
    {Element(u) : u \in {v \in units : v.pc = "push"}}
        \cup _queue \cup localQueue \cup UNION {Records(i) : i \in Targets}

\* C24: category(c) makes category() return c and leaves every record that is
\* formatted, buffered, in the worker's batch or written as it was; what
\* category() returns changes in no other step; and the step that formats a
\* record gives it the category that category() returns at that step.
CategoryFromFormatting ==
    [][/\ \A c \in Categories :
            category(c) =>
                /\ category_get' = c
                /\ FormattedRecords' = FormattedRecords
                /\ written' = written
       /\ category_get' # category_get => Step("category")
       /\ \A u \in units :
            unit_format(u) =>
                /\ [Element(u) EXCEPT !.cat = category_get] \in FormattedRecords'
                /\ FormattedRecords \subseteq FormattedRecords']_vars

\* the category was set to "tester" and back to "global"; the record logged in
\* between carries "tester", the one logged afterwards "global"
CategoryFromFormattingWitness ==
    /\ Len(_dests) >= 1
    /\ Len(written[1]) = 2
    /\ nOps = 2
    /\ category_get = "global"
    /\ \E r, q \in Records(1) :
        /\ r.id = 1 /\ r.cat = "tester"
        /\ q.id = 2 /\ q.cat = "global"

\* ---- C25 ----
\* C25: every record in a destination passed the global threshold its log()
\* call met, and a record whose call met the lowered global threshold Info is
\* behind every record of an earlier call that met the global threshold Error.
LoweredThresholdTakesEffect ==
    \A i \in Targets :
        /\ \A r \in Records(i) : ~(r.pri < r.gate)
        /\ \A k, l \in 1..Len(written[i]) :
            (/\ written[i][k].gate = Error
             /\ written[i][l].gate = Info
             /\ written[i][k].id < written[i][l].id)
            => k < l

\* ---- C26 ----
\* the step is a log() call of that priority arriving at the gate
LogCallOf(pri) ==
    /\ Len(calls') = Len(calls) + 1
    /\ calls'[Len(calls')].pri = pri

\* C26: _requestedErrors never goes down; it changes only in the gate step of
\* a log() call whose priority is at least the global threshold and at least
\* the error threshold and that finds a callback set, and every such step
\* adds exactly one, with the call's ingestion thread not yet started; with no
\* callback set no step changes it.
CounterOnlyAtGate ==
    [][/\ _requestedErrors' >= _requestedErrors
       /\ _requestedErrors' # _requestedErrors =>
            /\ _requestedErrors' = _requestedErrors + 1
            /\ _verifCB
            /\ \E pri \in PriorityInputs :
                /\ LogCallOf(pri)
                /\ ~(pri < _globalThreshold)
                /\ ~(pri < _errorThreshold)
            /\ units' = units
            /\ \E c \in Callers : cpc[c] = "idle" /\ cpc'[c] = "gated"
       /\ \A pri \in PriorityInputs :
            (/\ LogCallOf(pri)
             /\ _verifCB
             /\ ~(pri < _globalThreshold)
             /\ ~(pri < _errorThreshold))
            => _requestedErrors' = _requestedErrors + 1
       /\ ~_verifCB => _requestedErrors' = _requestedErrors]_vars

\* two calls counted, one at the error threshold Info and one at Error
CounterOnlyAtGateWitness ==
    /\ _requestedErrors = 2
    /\ Len(calls) = 2
    /\ \E k \in 1..2 : calls[k].pri = Info /\ calls[k].errThr = Info
    /\ \E k \in 1..2 : calls[k].pri = Error /\ calls[k].errThr = Error

\* ---- C27 ----
\* C27 as stated: the step of the destructor that sets the shutdown flag
\* signals _writeCond, so that a worker waiting then has a notification.
ShutdownSignalsWorker ==
    [][dtor_start => (wpc = "waiting" => notified')]_vars

\* C27 amended: the step of the destructor that sets the shutdown flag leaves
\* the worker and its pending notification as they were, and a worker that
\* waits on an empty _queue leaves the wait only by the timeout of wait_for.
ShutdownLeftToTimeout ==
    [][/\ dtor_start =>
            /\ ~_log'
            /\ notified' = notified
            /\ wpc' = wpc
       /\ (wpc = "waiting" /\ _queue = {} /\ wpc' # "waiting") =>
            worker_timeout]_vars

\* shutdown has begun, nothing is left to push, and the worker is still in
\* wait_for with no notification
ShutdownLeftToTimeoutWitness ==
    /\ dpc = "join"
    /\ ~_log
    /\ wpc = "waiting"
    /\ ~notified
    /\ _queue = {}
    /\ units = {}

Undispatched == _queue \cup localQueue

\* C29: the step that detaches _queue finds the worker's batch empty, makes
\* the batch what _queue held and leaves _queue empty; the records buffered or
\* in the batch change only by a push, which adds one, or by a pop, which
\* takes one out of the batch and appends it at most once to each
\* destination; no record is in both _queue and the batch, and no destination
\* holds two records of one log() call.
DetachedAndPoppedOnce ==
    [][/\ (wpc # "lockDest" /\ wpc' = "lockDest") =>
            /\ localQueue = {}
            /\ localQueue' = _queue
            /\ _queue' = {}
       /\ Undispatched' # Undispatched =>
            \/ \E u \in units :
                /\ unit_push(u)
                /\ Cardinality(Undispatched') = Cardinality(Undispatched) + 1
            \/ \E m \in localQueue :
                /\ Pops(m)
                /\ Undispatched' = Undispatched \ {m}
                /\ \A i \in Targets :
                    \/ written'[i] = written[i]
                    \/ written'[i] = Append(written[i], m)
       /\ \A a \in _queue, b \in localQueue : a.id # b.id
       /\ \A i \in Targets :
            \A k, l \in 1..Len(written[i]) :
                written[i][k].id = written[i][l].id => k = l]_vars

\* two records went through two batches, each written once
DetachedAndPoppedOnceWitness ==
    /\ wpc = "exited"
    /\ Len(_dests) >= 1
    /\ Len(written[1]) = 2
    /\ written[1][1].ts < written[1][2].ts
    /\ written[1][1].seq = 1 /\ written[1][2].seq = 2
    /\ written[1][1].id # written[1][2].id

\* ---- C30 ----
\* C30: a record that is in _queue while the drain worker has not exited is
\* eventually taken out of _queue and popped from the worker's batch, under
\* fair scheduling of the worker with no timeout of wait_for assumed.
NoLostWakeup ==
    \A k \in 1..MaxLogs :
        ((\E r \in _queue : r.id = k) /\ wpc # "exited")
            ~> ~(\E r \in Undispatched : r.id = k)

\* a push found the worker in wait_for and notified it
NoLostWakeupWitness ==
    /\ wpc = "waiting"
    /\ notified
    /\ _queue # {}
    /\ _log

\* ---- C31 ----
\* C31: once the drain worker has exited no ingestion thread takes a step, be
\* it formatting with _category, pushing to _queue or running on after the
\* destructor, and the destructor never completes while an ingestion thread
\* is left.
NoUnitOutlivesWorker ==
    [][/\ wpc = "exited" =>
            \A u \in units :
                /\ ~unit_format(u)
                /\ ~unit_push(u)
                /\ ~unit_after_free(u)
       /\ dpc' = "done" => units' = {}]_vars

====
